---- MODULE Spec2Model ----
(***************************************************************************)
(* Model of scripts/generate_chart.py: the data synthesizer                *)
(* (generate_sample_data), the grouping and plotting of create_line_chart, *)
(* the JSON export (save_data_as_json) and the orchestration in main.      *)
(*                                                                         *)
(* Python strings are modelled as sequences of one-character strings, so   *)
(* that formatting (strftime, isoformat, JSON encoding) and parsing        *)
(* (fromisoformat, JSON decoding) are computed and not assumed.            *)
(***************************************************************************)
EXTENDS Integers, Sequences, FiniteSets, TLC

(***************************************************************************)
(* Bounds of the model (not program constants).                            *)
(***************************************************************************)
\* number of runs of main in one behaviour
MaxRuns == 2
\* longest input sequence handed to create_line_chart in SpecGroup
MaxLen == 3

(***************************************************************************)
(* Characters and strings.                                                 *)
(***************************************************************************)
\* the characters the program's strings use, in ASCII order
Alphabet ==
  << "\"", "#", "-", "0", "1", "2", "3", "4", "5", "6", "7", "8", "9", ":",
     "A", "B", "C", "D", "E", "F", "T", "W", "\\", "_",
     "a", "b", "c", "d", "e", "h", "i", "k", "l", "m", "n", "o", "p", "r", "s",
     "t", "u", "v", "w" >>

CharCode(c) == CHOOSE n \in 1..Len(Alphabet) : Alphabet[n] = c

Digits == << "0", "1", "2", "3", "4", "5", "6", "7", "8", "9" >>

IsDigit(c) == \E n \in 1..10 : Digits[n] = c

DigitVal(c) == (CHOOSE n \in 1..10 : Digits[n] = c) - 1

\* Python's str < str: lexicographic by code point, a proper prefix is less
StrLess(a, b) ==
  \E n \in 1..Len(b) :
     /\ \A m \in 1..(n - 1) : m <= Len(a) /\ a[m] = b[m]
     /\ \/ n = Len(a) + 1
        \/ n <= Len(a) /\ CharCode(a[n]) < CharCode(b[n])

\* str(n) for n >= 0: the decimal digits, no padding
RECURSIVE IntToStr(_)
IntToStr(n) ==
  IF n < 10 THEN << Digits[n + 1] >>
  ELSE IntToStr(n \div 10) \o << Digits[(n % 10) + 1] >>

\* int(s) for a string of decimal digits
RECURSIVE StrToInt(_)
StrToInt(s) ==
  IF Len(s) = 0 THEN 0
  ELSE 10 * StrToInt(SubSeq(s, 1, Len(s) - 1)) + DigitVal(s[Len(s)])

\* the %0<w>d conversion of strftime and isoformat: zero-padded to width w
RECURSIVE ZeroPad(_, _)
ZeroPad(n, w) ==
  IF Len(IntToStr(n)) >= w THEN IntToStr(n)
  ELSE << "0" >> \o ZeroPad(n, w - 1)

(***************************************************************************)
(* datetime: proleptic Gregorian ordinals, as in CPython's datetime.       *)
(***************************************************************************)
IsLeap(y) == y % 4 = 0 /\ (y % 100 # 0 \/ y % 400 = 0)

DaysBeforeYear(y) ==
  (y - 1) * 365 + (y - 1) \div 4 - (y - 1) \div 100 + (y - 1) \div 400

DaysInMonth(y, m) ==
  IF m = 2 THEN (IF IsLeap(y) THEN 29 ELSE 28)
  ELSE IF m \in {4, 6, 9, 11} THEN 30 ELSE 31

RECURSIVE DaysBeforeMonth(_, _)
DaysBeforeMonth(y, m) ==
  IF m = 1 THEN 0 ELSE DaysBeforeMonth(y, m - 1) + DaysInMonth(y, m - 1)

\* date.toordinal()
ToOrdinal(d) == DaysBeforeYear(d.year) + DaysBeforeMonth(d.year, d.month) + d.day

\* the years the script's dates can fall in
Years == 2023 .. 2025

\* date.fromordinal(n)
FromOrdinal(n) ==
  LET y == CHOOSE yy \in Years : DaysBeforeYear(yy) < n /\ n <= DaysBeforeYear(yy + 1)
      r == n - DaysBeforeYear(y)
      m == CHOOSE mm \in 1..12 :
             DaysBeforeMonth(y, mm) < r /\ r <= DaysBeforeMonth(y, mm) + DaysInMonth(y, mm)
  IN  [year |-> y, month |-> m, day |-> r - DaysBeforeMonth(y, m)]

\* datetime(2024, 1, 1)
start_date == [year |-> 2024, month |-> 1, day |-> 1]

\* WeekDate with timedelta(days=week)
WeekDateDays(week) == FromOrdinal(ToOrdinal(start_date) + week)

\* start_date + timedelta(weeks=week)
WeekDate(week) == FromOrdinal(ToOrdinal(start_date) + 7 * week)

\* tm_yday - 1: days since January 1st
YDay(d) == DaysBeforeMonth(d.year, d.month) + d.day - 1

\* tm_wday counted from Sunday = 0
WDaySunday(d) == ToOrdinal(d) % 7

\* strftime %U: week of the year, weeks start on Sunday, days before the
\* first Sunday are in week 0
WeekOfYearU(d) == (YDay(d) + 7 - WDaySunday(d)) \div 7

\* WeekLabel with the week number not zero-padded
WeekLabelNoPad(d) == ZeroPad(d.year, 4) \o << "-", "W" >> \o IntToStr(WeekOfYearU(d))

\* week_date.strftime("%Y-W%U")
WeekLabel(d) == ZeroPad(d.year, 4) \o << "-", "W" >> \o ZeroPad(WeekOfYearU(d), 2)

\* week_date.isoformat() of a datetime at midnight without microseconds
IsoFormat(d) ==
  ZeroPad(d.year, 4) \o << "-" >> \o ZeroPad(d.month, 2) \o << "-" >>
    \o ZeroPad(d.day, 2) \o << "T", "0", "0", ":", "0", "0", ":", "0", "0" >>

\* datetime.fromisoformat(s) for the YYYY-MM-DDTHH:MM:SS form
FromIsoFormat(s) ==
  [year |-> StrToInt(SubSeq(s, 1, 4)),
   month |-> StrToInt(SubSeq(s, 6, 7)),
   day |-> StrToInt(SubSeq(s, 9, 10)),
   hour |-> StrToInt(SubSeq(s, 12, 13)),
   minute |-> StrToInt(SubSeq(s, 15, 16)),
   second |-> StrToInt(SubSeq(s, 18, 19))]

(***************************************************************************)
(* generate_sample_data: the constants and the per-iteration computation.  *)
(***************************************************************************)
Alice == << "A", "l", "i", "c", "e" >>
Bob == << "B", "o", "b" >>
Charlie == << "C", "h", "a", "r", "l", "i", "e" >>
Diana == << "D", "i", "a", "n", "a" >>
Eve == << "E", "v", "e" >>

individuals ==
  << [name |-> Alice, color |-> << "#", "F", "F", "6", "B", "6", "B" >>],
     [name |-> Bob, color |-> << "#", "4", "E", "C", "D", "C", "4" >>],
     [name |-> Charlie, color |-> << "#", "4", "5", "B", "7", "D", "1" >>],
     [name |-> Diana, color |-> << "#", "F", "F", "A", "7", "2", "6" >>],
     [name |-> Eve, color |-> << "#", "A", "B", "4", "7", "B", "C" >>] >>

\* range(12)
NumWeeks == 12

\* the amount added to points in week `week` (the if/elif chain on the name)
Increment(name, week) ==
  IF name = Alice THEN 15 + (week * 2) + ((week % 3) * 5)
  ELSE IF name = Bob THEN 12 + (week * 3) + ((week % 2) * 3)
  ELSE IF name = Charlie THEN 18 + (week * 1) + ((week % 4) * 7)
  ELSE IF name = Diana THEN 10 + (week * 4) + ((week % 5) * 2)
  ELSE 20 + (week * 2) + ((week % 3) * 4)

\* AddPoints with "=" written for "+=": the total is the week's increment
AddPointsAssign(points, name, week) == Increment(name, week)

\* points += ...
AddPoints(points, name, week) == points + Increment(name, week)

\* the dict appended to data
MakeRecord(individual, week, points) ==
  [individual |-> individual.name,
   color |-> individual.color,
   week |-> WeekLabel(WeekDate(week)),
   date |-> IsoFormat(WeekDate(week)),
   cumulative_points |-> points]

\* the inner loop run to completion for one individual, from week `week` on
RECURSIVE InnerLoop(_, _, _)
InnerLoop(individual, week, points) ==
  IF week >= NumWeeks THEN << >>
  ELSE LET p == AddPoints(points, individual.name, week)
       IN  << MakeRecord(individual, week, p) >> \o InnerLoop(individual, week + 1, p)

\* OuterLoop with "points = 0" placed before the outer loop: the total is
\* carried from one individual to the next
RECURSIVE CarryLoop(_, _)
CarryLoop(ind, points) ==
  IF ind > Len(individuals) THEN << >>
  ELSE LET own == InnerLoop(individuals[ind], 0, points)
       IN  own \o CarryLoop(ind + 1, own[Len(own)].cumulative_points)

OuterLoopCarry(ind) == CarryLoop(ind, 0)

\* the outer loop run to completion from individual number `ind` on
RECURSIVE OuterLoop(_)
OuterLoop(ind) ==
  IF ind > Len(individuals) THEN << >>
  ELSE InnerLoop(individuals[ind], 0, 0) \o OuterLoop(ind + 1)

\* the value generate_sample_data() returns
generate_sample_data == OuterLoop(1)

(***************************************************************************)
(* json.dump / json.load.  A file's content is the sequence of its JSON    *)
(* objects; an object is the sequence of its members in the order they are *)
(* written; a member is the pair of the key's text and the value's text.   *)
(* Insignificant whitespace (indent=2) is not represented.                 *)
(***************************************************************************)
\* the keys of a record, in the dict's insertion order
RecordKeys ==
  << << "i", "n", "d", "i", "v", "i", "d", "u", "a", "l" >>,
     << "c", "o", "l", "o", "r" >>,
     << "w", "e", "e", "k" >>,
     << "d", "a", "t", "e" >>,
     << "c", "u", "m", "u", "l", "a", "t", "i", "v", "e", "_",
        "p", "o", "i", "n", "t", "s" >> >>

\* record[key] for the n-th key
RecordValue(record, n) ==
  IF n = 1 THEN record.individual
  ELSE IF n = 2 THEN record.color
  ELSE IF n = 3 THEN record.week
  ELSE IF n = 4 THEN record.date
  ELSE record.cumulative_points

\* the body of a JSON string: " and \ are escaped with a backslash
RECURSIVE JsonEscape(_)
JsonEscape(s) ==
  IF Len(s) = 0 THEN << >>
  ELSE (IF s[1] \in {"\"", "\\"} THEN << "\\", s[1] >> ELSE << s[1] >>)
         \o JsonEscape(Tail(s))

RECURSIVE JsonUnescape(_)
JsonUnescape(s) ==
  IF Len(s) = 0 THEN << >>
  ELSE IF s[1] = "\\" /\ Len(s) >= 2 THEN << s[2] >> \o JsonUnescape(SubSeq(s, 3, Len(s)))
  ELSE << s[1] >> \o JsonUnescape(Tail(s))

\* JSON text of a str
JsonEncodeStr(s) == << "\"" >> \o JsonEscape(s) \o << "\"" >>

\* JSON text of an int (non-negative here)
JsonEncodeInt(n) == IntToStr(n)

\* JSON text of the n-th value of a record: an int for cumulative_points,
\* a str for the others
JsonEncodeValue(record, n) ==
  IF n = 5 THEN JsonEncodeInt(RecordValue(record, n))
  ELSE JsonEncodeStr(RecordValue(record, n))

JsonEncodeObject(record) ==
  [n \in 1..Len(RecordKeys) |->
     << JsonEncodeStr(RecordKeys[n]), JsonEncodeValue(record, n) >>]

\* JsonDump that leaves out the last record
JsonDumpDropLast(data) == [n \in 1..(Len(data) - 1) |-> JsonEncodeObject(data[n])]

\* the text json.dump(data, f, indent=2) writes
JsonDump(data) == [n \in 1..Len(data) |-> JsonEncodeObject(data[n])]

\* the Python value of a JSON scalar text
JsonDecodeValue(text) ==
  IF Len(text) >= 2 /\ text[1] = "\"" THEN JsonUnescape(SubSeq(text, 2, Len(text) - 1))
  ELSE StrToInt(text)

\* obj[key] of a parsed object: the value of the last member with that key
JsonMember(object, key) ==
  LET n == CHOOSE m \in 1..Len(object) :
             /\ JsonDecodeValue(object[m][1]) = key
             /\ \A q \in (m + 1)..Len(object) : JsonDecodeValue(object[q][1]) # key
  IN  JsonDecodeValue(object[n][2])

JsonDecodeObject(object) ==
  [individual |-> JsonMember(object, RecordKeys[1]),
   color |-> JsonMember(object, RecordKeys[2]),
   week |-> JsonMember(object, RecordKeys[3]),
   date |-> JsonMember(object, RecordKeys[4]),
   cumulative_points |-> JsonMember(object, RecordKeys[5])]

\* json.load of a file holding a list of record objects
JsonLoad(content) == [n \in 1..Len(content) |-> JsonDecodeObject(content[n])]

(***************************************************************************)
(* create_line_chart: the grouping loop and the plotting loop.             *)
(* individuals_data is an insertion-ordered dict: a sequence of entries,   *)
(* one per key, in the order the keys were first inserted.                 *)
(***************************************************************************)
\* name in individuals_data
HasKey(groups, name) == \E n \in 1..Len(groups) : groups[n].name = name

\* GroupRecord that takes the colour from every record, not only the first
GroupRecordLastColor(groups, record) ==
  LET name == record.individual
      g == IF HasKey(groups, name) THEN groups
           ELSE Append(groups, [name |-> name, dates |-> << >>, points |-> << >>,
                                color |-> record.color])
  IN  [n \in 1..Len(g) |->
         IF g[n].name = name
         THEN [g[n] EXCEPT !.dates = Append(@, FromIsoFormat(record.date)),
                           !.points = Append(@, record.cumulative_points),
                           !.color = record.color]
         ELSE g[n]]

\* one iteration of "for record in data": create the entry on first sight,
\* then append the parsed date and the points to the entry of that name
GroupRecord(groups, record) ==
  LET name == record.individual
      g == IF HasKey(groups, name) THEN groups
           ELSE Append(groups, [name |-> name, dates |-> << >>, points |-> << >>,
                                color |-> record.color])
  IN  [n \in 1..Len(g) |->
         IF g[n].name = name
         THEN [g[n] EXCEPT !.dates = Append(@, FromIsoFormat(record.date)),
                           !.points = Append(@, record.cumulative_points)]
         ELSE g[n]]

\* the line ax.plot draws for one entry
PlotLine(entry) ==
  [label |-> entry.name, color |-> entry.color, xs |-> entry.dates, ys |-> entry.points]

(***************************************************************************)
(* The file system: the charts directory and the two output files.         *)
(***************************************************************************)
Absent == [exists |-> FALSE, content |-> << >>]

\* OpenForWrite with mode 'a': the old content is kept
OpenForAppend(file) == [exists |-> TRUE, content |-> file.content]

\* open(path, 'w'): the file is created or truncated
OpenForWrite(file) == [exists |-> TRUE, content |-> << >>]

\* f.write(text) on an open file: the text goes after what the file holds
WriteText(file, text) == [exists |-> TRUE, content |-> file.content \o text]

\* contents the data file may have before a run: none, empty, or records
\* some other program or an older version left behind
StaleRecords ==
  << [individual |-> Eve, color |-> individuals[1].color,
      week |-> WeekLabel(start_date), date |-> IsoFormat(start_date),
      cumulative_points |-> 7],
     [individual |-> Bob, color |-> individuals[2].color,
      week |-> WeekLabel(start_date), date |-> IsoFormat(start_date),
      cumulative_points |-> 0] >>

PriorJson ==
  { Absent,
    [exists |-> TRUE, content |-> << >>],
    [exists |-> TRUE, content |-> JsonDump(StaleRecords)] }

\* contents the image file may have before a run: none, or some other image
PriorChart ==
  { Absent,
    [exists |-> TRUE, content |-> << PlotLine([name |-> Eve, color |-> individuals[1].color,
                                               dates |-> << >>, points |-> << >>]) >>] }

(***************************************************************************)
(* State.                                                                  *)
(***************************************************************************)
VARIABLES
  pc,               \* position in main (and in the function main is in)
  run,              \* number of the current run of the script
  data,             \* main's local `data`
  returned,         \* history: the value generate_sample_data returned
  individuals_data, \* create_line_chart's local dict
  k,                \* index of the next record / entry of the running loop
  lines,            \* the lines drawn on the axes so far
  exportArg,        \* history: the data argument of save_data_as_json
  dirExists,        \* the directory charts exists
  chartFile,        \* charts/individual_points_line_chart.png
  jsonFile,         \* charts/point_tracking_data.json
  jsonAtStart,      \* history: the data file when the run started
  console,          \* the lines printed by this run
  calls,            \* history: the steps main invoked in this run, in order
  failedAt,         \* the step that raised, "none" if none
  exitCode,         \* the process's exit code, -1 while it runs
  prev              \* history: the last successful earlier run

vars ==
  << pc, run, data, returned, individuals_data, k, lines, exportArg, dirExists,
     chartFile, jsonFile, jsonAtStart, console, calls, failedAt, exitCode, prev >>

locals == << data, returned, individuals_data, k, lines, exportArg >>
files == << dirExists, chartFile, jsonFile >>

NoPrev == [has |-> FALSE, synth |-> << >>, json |-> << >>, start |-> Absent]

\* the state of a process that has just been started
FreshProcess ==
  /\ data = << >>
  /\ returned = << >>
  /\ individuals_data = << >>
  /\ k = 1
  /\ lines = << >>
  /\ exportArg = << >>
  /\ console = << >>
  /\ calls = << >>
  /\ failedAt = "none"
  /\ exitCode = -1

Init ==
  /\ pc = "start"
  /\ run = 1
  /\ FreshProcess
  /\ dirExists \in BOOLEAN
  /\ jsonFile \in (IF dirExists THEN PriorJson ELSE {Absent})
  /\ chartFile \in (IF dirExists THEN PriorChart ELSE {Absent})
  /\ jsonAtStart = jsonFile
  /\ prev = NoPrev

(***************************************************************************)
(* main, one action per step.                                              *)
(***************************************************************************)
\* an uncaught exception: the traceback is printed and the exit code is 1
Raise(step) ==
  /\ pc' = "failed"
  /\ failedAt' = step
  /\ exitCode' = 1

\* print("Generating ..."); data = generate_sample_data()
CallSynth ==
  /\ pc = "start"
  /\ console' = Append(console, "Generating individual point tracking chart...")
  /\ calls' = Append(calls, "generate_sample_data")
  /\ data' = generate_sample_data
  /\ returned' = generate_sample_data
  /\ pc' = "makedirs"
  /\ UNCHANGED << individuals_data, k, lines, exportArg, files, jsonAtStart,
                  failedAt, exitCode, run, prev >>

\* MakedirsOk in a main that goes on to the export without drawing the chart
MakedirsOkSkipChart ==
  /\ pc = "makedirs"
  /\ calls' = Append(calls, "makedirs")
  /\ dirExists' = TRUE
  /\ pc' = "export_call"
  /\ UNCHANGED << locals, chartFile, jsonFile, jsonAtStart, console, failedAt,
                  exitCode, run, prev >>

\* os.makedirs(output_dir, exist_ok=True) succeeds
MakedirsOk ==
  /\ pc = "makedirs"
  /\ calls' = Append(calls, "makedirs")
  /\ dirExists' = TRUE
  /\ pc' = "chart_call"
  /\ UNCHANGED << locals, chartFile, jsonFile, jsonAtStart, console, failedAt,
                  exitCode, run, prev >>

\* os.makedirs raises OSError (no permission, a file named charts, ...)
MakedirsFail ==
  /\ pc = "makedirs"
  /\ calls' = Append(calls, "makedirs")
  /\ Raise("makedirs")
  /\ UNCHANGED << locals, files, jsonAtStart, console, run, prev >>

\* create_line_chart(data, chart_path) is entered
ChartCall ==
  /\ pc = "chart_call"
  /\ calls' = Append(calls, "create_line_chart")
  /\ individuals_data' = << >>
  /\ k' = 1
  /\ lines' = << >>
  /\ pc' = "group"
  /\ UNCHANGED << data, returned, exportArg, files, jsonAtStart, console,
                  failedAt, exitCode, run, prev >>

\* GroupStep that resets the points of the record it has read
GroupStepResetting ==
  /\ pc = "group"
  /\ IF k <= Len(data)
     THEN /\ individuals_data' = GroupRecord(individuals_data, data[k])
          /\ data' = [data EXCEPT ![k].cumulative_points = 0]
          /\ k' = k + 1
          /\ pc' = pc
     ELSE /\ k' = 1
          /\ pc' = "plot"
          /\ UNCHANGED << individuals_data, data >>
  /\ UNCHANGED << returned, lines, exportArg, files, jsonAtStart, console,
                  calls, failedAt, exitCode, run, prev >>

\* for record in data: one iteration, or the end of the loop
GroupStep ==
  /\ pc = "group"
  /\ IF k <= Len(data)
     THEN /\ individuals_data' = GroupRecord(individuals_data, data[k])
          /\ k' = k + 1
          /\ pc' = pc
     ELSE /\ k' = 1
          /\ pc' = "plot"
          /\ UNCHANGED individuals_data
  /\ UNCHANGED << data, returned, lines, exportArg, files, jsonAtStart, console,
                  calls, failedAt, exitCode, run, prev >>

\* for name, person_data in individuals_data.items(): one iteration, or the
\* end of the loop
PlotStep ==
  /\ pc = "plot"
  /\ IF k <= Len(individuals_data)
     THEN /\ lines' = Append(lines, PlotLine(individuals_data[k]))
          /\ k' = k + 1
          /\ pc' = pc
     ELSE /\ k' = 1
          /\ pc' = "savefig"
          /\ UNCHANGED lines
  /\ UNCHANGED << data, returned, individuals_data, exportArg, files, jsonAtStart,
                  console, calls, failedAt, exitCode, run, prev >>

\* plt.savefig writes the image; print("Chart saved to: ...")
SaveFigOk ==
  /\ pc = "savefig"
  /\ dirExists
  /\ chartFile' = WriteText(OpenForWrite(chartFile), lines)
  /\ console' = Append(console, "Chart saved to: ")
  /\ pc' = "export_call"
  /\ UNCHANGED << locals, dirExists, jsonFile, jsonAtStart, calls, failedAt,
                  exitCode, run, prev >>

\* SaveFigFail inside a try/except that logs the error and goes on
SaveFigFailSwallowed ==
  /\ pc = "savefig"
  /\ chartFile' \in ({chartFile} \cup (IF dirExists THEN {OpenForWrite(chartFile)} ELSE {}))
  /\ failedAt' = "create_line_chart"
  /\ pc' = "export_call"
  /\ UNCHANGED << locals, dirExists, jsonFile, jsonAtStart, console, calls, exitCode,
                  run, prev >>

\* rendering or plt.savefig raises; the image file is untouched or truncated
SaveFigFail ==
  /\ pc = "savefig"
  /\ chartFile' \in ({chartFile} \cup (IF dirExists THEN {OpenForWrite(chartFile)} ELSE {}))
  /\ Raise("create_line_chart")
  /\ UNCHANGED << locals, dirExists, jsonFile, jsonAtStart, console, calls, run, prev >>

\* save_data_as_json(data, data_path) is entered and open(output_path, 'w')
\* succeeds
ExportOpenOk ==
  /\ pc = "export_call"
  /\ calls' = Append(calls, "save_data_as_json")
  /\ exportArg' = data
  /\ jsonFile' = OpenForWrite(jsonFile)
  /\ pc' = "dump"
  /\ UNCHANGED << data, returned, individuals_data, k, lines, dirExists, chartFile,
                  jsonAtStart, console, failedAt, exitCode, run, prev >>

\* save_data_as_json is entered and open raises: the file is untouched
ExportOpenFail ==
  /\ pc = "export_call"
  /\ calls' = Append(calls, "save_data_as_json")
  /\ exportArg' = data
  /\ Raise("open")
  /\ UNCHANGED << data, returned, individuals_data, k, lines, files, jsonAtStart,
                  console, run, prev >>

\* json.dump(data, f, indent=2); the file is closed; print("Data saved ...")
DumpOk ==
  /\ pc = "dump"
  /\ jsonFile' = WriteText(jsonFile, JsonDump(exportArg))
  /\ console' = Append(console, "Data saved to: ")
  /\ pc' = "summary"
  /\ UNCHANGED << locals, dirExists, chartFile, jsonAtStart, calls, failedAt,
                  exitCode, run, prev >>

\* a write raises (disk full): only part of the text has reached the file
DumpFail ==
  /\ pc = "dump"
  /\ \E n \in {0, Len(exportArg) \div 2} :
       jsonFile' = WriteText(jsonFile, SubSeq(JsonDump(exportArg), 1, n))
  /\ Raise("dump")
  /\ UNCHANGED << locals, dirExists, chartFile, jsonAtStart, console, calls, run, prev >>

\* the three final prints; main returns and the interpreter exits with 0
Summary ==
  /\ pc = "summary"
  /\ console' = console \o << "Chart generation completed successfully!",
                              "Chart location: ", "Data location: " >>
  /\ exitCode' = 0
  /\ pc' = "done"
  /\ UNCHANGED << locals, files, jsonAtStart, calls, failedAt, run, prev >>

\* the script is started again; in between, the environment may have
\* replaced or removed the output files
Rerun ==
  /\ pc \in {"done", "failed"}
  /\ run < MaxRuns
  /\ run' = run + 1
  /\ prev' = IF pc = "done"
             THEN [has |-> TRUE, synth |-> returned, json |-> jsonFile.content,
                   start |-> jsonAtStart]
             ELSE prev
  /\ pc' = "start"
  /\ data' = << >>
  /\ returned' = << >>
  /\ individuals_data' = << >>
  /\ k' = 1
  /\ lines' = << >>
  /\ exportArg' = << >>
  /\ console' = << >>
  /\ calls' = << >>
  /\ failedAt' = "none"
  /\ exitCode' = -1
  /\ dirExists' = dirExists
  /\ jsonFile' \in ({jsonFile} \cup (IF dirExists THEN PriorJson ELSE {}))
  /\ chartFile' \in ({chartFile} \cup (IF dirExists THEN PriorChart ELSE {}))
  /\ jsonAtStart' = jsonFile'

Next ==
  \/ CallSynth
  \/ MakedirsOk
  \/ MakedirsFail
  \/ ChartCall
  \/ GroupStep
  \/ PlotStep
  \/ SaveFigOk
  \/ SaveFigFail
  \/ ExportOpenOk
  \/ ExportOpenFail
  \/ DumpOk
  \/ DumpFail
  \/ Summary
  \/ Rerun

Spec == Init /\ [][Next]_vars

(***************************************************************************)
(* create_line_chart on its own, for any input sequence of records.        *)
(***************************************************************************)
SeqsUpTo(S, n) == UNION { [1..m -> S] : m \in 0..n }

\* records with few distinct names, colours and (date, points) samples
SmallRecords ==
  { [individual |-> nm, color |-> individuals[c].color,
     week |-> WeekLabel(WeekDate(w)), date |-> IsoFormat(WeekDate(w)),
     cumulative_points |-> 15 + 22 * w] :
    nm \in {Alice, Bob, Eve}, c \in 1..2, w \in 0..1 }

InitGroup ==
  /\ pc = "group"
  /\ run = 1
  /\ data \in (SeqsUpTo(SmallRecords, MaxLen) \cup {generate_sample_data})
  /\ returned = data
  /\ individuals_data = << >>
  /\ k = 1
  /\ lines = << >>
  /\ exportArg = << >>
  /\ console = << >>
  /\ calls = << "create_line_chart" >>
  /\ failedAt = "none"
  /\ exitCode = -1
  /\ dirExists = TRUE
  /\ jsonFile = Absent
  /\ chartFile = Absent
  /\ jsonAtStart = jsonFile
  /\ prev = NoPrev

NextGroup == GroupStep \/ PlotStep

SpecGroup == InitGroup /\ [][NextGroup]_vars

(***************************************************************************)
(* Properties.                                                             *)
(***************************************************************************)
\* the records of one individual, in the order they appear in s
RecordsOf(s, name) == SelectSeq(s, LAMBDA r : r.individual = name)

IsPrefix(a, b) == Len(a) <= Len(b) /\ a = SubSeq(b, 1, Len(a))

Synthesized == pc # "start"

\* C1: in the sequence generate_sample_data returned, every cumulative_points
\* is a non-negative integer and, for each of the five individuals and every
\* week 1..11, the week's total is strictly greater than the week before's.
C1_StrictlyIncreasing ==
  Synthesized =>
    /\ \A n \in 1..Len(returned) : returned[n].cumulative_points \in Nat
    /\ \A i \in 1..Len(individuals) :
         LET own == RecordsOf(returned, individuals[i].name)
         IN  /\ Len(own) = NumWeeks
             /\ \A w \in 1..(NumWeeks - 1) :
                  own[w + 1].cumulative_points > own[w].cumulative_points

C1_Witness ==
  /\ Synthesized
  /\ Len(RecordsOf(returned, Diana)) = 12
  /\ RecordsOf(returned, Diana)[12].cumulative_points > RecordsOf(returned, Diana)[11].cumulative_points

\* the dates of weeks 0..11 as <<month, day>> of 2024
ExpectedDates ==
  << << 1, 1 >>, << 1, 8 >>, << 1, 15 >>, << 1, 22 >>, << 1, 29 >>, << 2, 5 >>,
     << 2, 12 >>, << 2, 19 >>, << 2, 26 >>, << 3, 4 >>, << 3, 11 >>, << 3, 18 >> >>

ExpectedNames == << Alice, Bob, Charlie, Diana, Eve >>

\* C2: generate_sample_data returns exactly 60 records; the record at
\* position 12*i + w (positions from 0) belongs to the i-th individual of
\* Alice, Bob, Charlie, Diana, Eve and carries the date 2024-01-01 plus w weeks.
C2_Layout ==
  Synthesized =>
    /\ Len(returned) = 60
    /\ \A i \in 0..4 : Len(RecordsOf(returned, ExpectedNames[i + 1])) = 12
    /\ \A i \in 0..4 : \A w \in 0..11 :
         LET r == returned[12 * i + w + 1]
             d == FromIsoFormat(r.date)
         IN  /\ r.individual = ExpectedNames[i + 1]
             /\ Len(r.date) = 19
             /\ << d.year, d.month, d.day >> = << 2024 >> \o ExpectedDates[w + 1]
             /\ << d.hour, d.minute, d.second >> = << 0, 0, 0 >>

C2_Witness ==
  /\ Synthesized
  /\ Len(returned) = 60
  /\ returned[60].individual = Eve
  /\ returned[60].date = << "2", "0", "2", "4", "-", "0", "3", "-", "1", "8",
                            "T", "0", "0", ":", "0", "0", ":", "0", "0" >>

\* C3: the running total starts at 0 for each individual: Alice's first two
\* records have cumulative_points 15 and 37, and Bob's first record has 12.
C3_ConcreteTotals ==
  Synthesized =>
    /\ RecordsOf(returned, Alice)[1].cumulative_points = 15
    /\ RecordsOf(returned, Alice)[2].cumulative_points = 37
    /\ RecordsOf(returned, Bob)[1].cumulative_points = 12

C3_Witness ==
  /\ Synthesized
  /\ returned[1].individual = Alice
  /\ returned[12].individual = Alice
  /\ returned[12].cumulative_points > 12
  /\ returned[13].individual = Bob

\* a week label has the form YYYY-Www
IsWeekLabel(s) ==
  /\ Len(s) = 8
  /\ s[5] = "-"
  /\ s[6] = "W"
  /\ \A n \in {1, 2, 3, 4, 7, 8} : IsDigit(s[n])

\* C4: within each individual's 12 records the week labels (YYYY-Www) are
\* pairwise distinct, and both the dates and the week labels are strictly
\* increasing with the week index.
C4_WeekLabels ==
  Synthesized =>
    \A i \in 1..Len(individuals) :
      LET own == RecordsOf(returned, individuals[i].name)
      IN  /\ \A w \in 1..Len(own) : IsWeekLabel(own[w].week)
          /\ \A v, w \in 1..Len(own) : v # w => own[v].week # own[w].week
          /\ \A w \in 1..(Len(own) - 1) :
               /\ StrLess(own[w].week, own[w + 1].week)
               /\ StrLess(own[w].date, own[w + 1].date)
               /\ ToOrdinal(FromIsoFormat(own[w].date))
                    < ToOrdinal(FromIsoFormat(own[w + 1].date))

C4_Witness ==
  /\ Synthesized
  /\ Len(RecordsOf(returned, Charlie)) = 12
  /\ RecordsOf(returned, Charlie)[10].week = << "2", "0", "2", "4", "-", "W", "0", "9" >>
  /\ RecordsOf(returned, Charlie)[11].week = << "2", "0", "2", "4", "-", "W", "1", "0" >>

\* the order of the steps as the orchestration section states it
StatedOrder ==
  << "makedirs", "generate_sample_data", "create_line_chart", "save_data_as_json" >>

\* the order of the steps in main
CodeOrder ==
  << "generate_sample_data", "makedirs", "create_line_chart", "save_data_as_json" >>

\* C5 as stated: the steps happen once each in the order directory,
\* Synthesizer, Renderer, Exporter; the Synthesizer is never invoked before
\* the directory has been ensured.
C5_StatedOrder ==
  /\ IsPrefix(calls, StatedOrder)
  /\ pc = "done" => calls = StatedOrder

\* C5 (amended): in every run the steps happen at most once each and in the
\* order Synthesizer, directory, Renderer, Exporter, and a run that completes
\* has performed each of them exactly once.
C5_CodeOrder ==
  /\ IsPrefix(calls, CodeOrder)
  /\ pc = "done" => calls = CodeOrder

C5_Witness ==
  /\ pc = "done"
  /\ calls = CodeOrder
  /\ dirExists

\* C6: a run aborts at the first failing step: after a failure nothing more
\* is invoked (the calls end with the failing step), a failed Renderer leaves
\* the data file as the run found it, the success message is not printed and
\* the exit code is not 0.
C6_AbortOnFailure ==
  /\ pc = "failed" <=> failedAt # "none"
  /\ pc = "failed" =>
       /\ exitCode # 0 /\ exitCode # -1
       /\ \A n \in 1..Len(console) : console[n] # "Chart generation completed successfully!"
       /\ failedAt = "makedirs" => calls = SubSeq(CodeOrder, 1, 2)
       /\ failedAt = "create_line_chart" =>
            /\ calls = SubSeq(CodeOrder, 1, 3)
            /\ jsonFile = jsonAtStart
       /\ failedAt \in {"open", "dump"} => calls = CodeOrder
  /\ exitCode = 0 =>
       /\ failedAt = "none"
       /\ calls = CodeOrder

C6_Witness ==
  /\ pc = "failed"
  /\ failedAt = "create_line_chart"
  /\ jsonAtStart.exists
  /\ Len(lines) = 5

\* C7: the file save_data_as_json wrote for the synthesized sequence parses
\* back to exactly that sequence of records: same tuples, same order.
C7_RoundTrip ==
  pc \in {"summary", "done"} =>
    /\ Len(jsonFile.content) = Len(returned)
    /\ JsonLoad(jsonFile.content) = returned

C7_Witness ==
  /\ pc = "summary"
  /\ Len(jsonFile.content) = 60
  /\ jsonFile.content[1][5] = << << "\"", "c", "u", "m", "u", "l", "a", "t", "i", "v", "e", "_",
                                    "p", "o", "i", "n", "t", "s", "\"" >>, << "1", "5" >> >>

\* C8: successful runs, whatever the output files held before, synthesize the
\* same sequence and leave the same data file, which holds exactly the 60
\* records of the run and nothing of the earlier content.
C8_Deterministic ==
  pc = "done" =>
    /\ Len(jsonFile.content) = 60
    /\ JsonLoad(jsonFile.content) = returned
    /\ prev.has => /\ returned = prev.synth
                   /\ jsonFile.content = prev.json

C8_Witness ==
  /\ pc = "done"
  /\ prev.has
  /\ prev.start # jsonAtStart
  /\ Len(jsonAtStart.content) > 0
  /\ Len(jsonAtStart.content) < 60

\* C9: the sequence is not changed after generate_sample_data returned it:
\* main's data stays equal to it through create_line_chart, and the argument
\* of save_data_as_json is equal to it.
C9_NotMutated ==
  /\ Synthesized => data = returned
  /\ (\E n \in 1..Len(calls) : calls[n] = "save_data_as_json") => exportArg = returned

C9_Witness ==
  /\ pc = "dump"
  /\ Len(lines) = 5
  /\ Len(exportArg) = 60

\* the distinct names of s in the order of their first appearance
RECURSIVE FirstSeen(_)
FirstSeen(s) ==
  IF Len(s) = 0 THEN << >>
  ELSE LET before == FirstSeen(SubSeq(s, 1, Len(s) - 1))
           name == s[Len(s)].individual
       IN  IF \E n \in 1..Len(before) : before[n] = name THEN before
           ELSE Append(before, name)

RECURSIVE SumLens(_)
SumLens(groups) ==
  IF Len(groups) = 0 THEN 0 ELSE Len(groups[1].points) + SumLens(Tail(groups))

GroupingDone == pc \in {"plot", "savefig"}

\* C10: when the grouping loop of create_line_chart has run, the series are
\* the names in order of first appearance; each holds that individual's
\* (date, points) pairs in input order, dates and points of equal length, and
\* the colour of the individual's first record; the lengths sum to the input
\* length; the synthesized input gives Alice, Bob, Charlie, Diana, Eve with
\* 12 points each.
C10_Grouping ==
  GroupingDone =>
    /\ Len(individuals_data) = Len(FirstSeen(data))
    /\ \A n \in 1..Len(individuals_data) :
         LET g == individuals_data[n]
             own == RecordsOf(data, g.name)
         IN  /\ g.name = FirstSeen(data)[n]
             /\ Len(g.dates) = Len(g.points)
             /\ Len(g.dates) = Len(own)
             /\ \A m \in 1..Len(own) :
                  /\ g.dates[m] = FromIsoFormat(own[m].date)
                  /\ g.points[m] = own[m].cumulative_points
             /\ g.color = own[1].color
    /\ SumLens(individuals_data) = Len(data)
    /\ data = generate_sample_data =>
         /\ Len(individuals_data) = 5
         /\ \A n \in 1..5 : /\ individuals_data[n].name = ExpectedNames[n]
                            /\ Len(individuals_data[n].points) = 12

C10_Witness ==
  /\ GroupingDone
  /\ Len(data) = 3
  /\ Len(individuals_data) = 2
  /\ data[1].individual = data[3].individual
  /\ data[1].color # data[3].color
  /\ data[1].date # data[3].date
  /\ Len(individuals_data[1].points) = 2

====
